---- MODULE Spec2Model ----
(***************************************************************************)
(* Planning Poker client (PlanningPokerApp, a React component).            *)
(*                                                                         *)
(* The state is the component's useState cells, the closures that the      *)
(* SignalR handlers capture when a connection is built, and the            *)
(* asynchronous handlers that are suspended at an await.  One action is    *)
(* one synchronous stretch of JavaScript: a click handler up to its first  *)
(* await, the continuation of an await, or one transport callback.  React  *)
(* 18 batches the setState calls of one stretch into one render.           *)
(***************************************************************************)
EXTENDS Integers, Sequences, FiniteSets, TLC

\* ------------------------------------------------------------------ bounds
MaxConns == 1       \* HubConnection objects alive (not yet collected) at once
MaxPending == 2     \* SendVote invocations in flight

\* ------------------------------------------------------------ value domains
Null == "null"
NullConn == 0
RoomIds == {"R1", "R2"}
UserIds == {"A", "B"}
Names == {"n1", "n2"}
Votes == {"5", "8"}
VotesOrNull == Votes \cup {Null}

\* interface User { id; name; vote }
User == [id : UserIds, name : Names, vote : VotesOrNull]
NullUser == [id |-> Null, name |-> Null, vote |-> Null]

\* Record<string, User>, keyed by the user's id as the server sends it
UserMaps == UNION {{m \in [S -> User] : \A k \in S : m[k].id = k} : S \in SUBSET UserIds}

\* interface Room { id; users }
Room == [id : RoomIds, users : UserMaps]
NullRoom == [id |-> Null, users |-> <<>>]

\* messages given to setError: the connectivity warning, and the message of a
\* thrown error (err.message)
ErrConnLost == "Connection lost. Attempting to reconnect..."
ErrMessage == "err.message"

\* What the control plane and the hub send in the lifecycle specification Spec:
\* one room and one participant id handed out by the control plane, an empty
\* fetched room, a join patch naming participant B, votes and leaves
JoinNames == {"n1"}
JoinRoomIds == {"R1"}
SelfIds == {"A"}
ClickVotes == {"5"}
FetchedMaps == {<<>>}
JoinPatches == {[id |-> "R2", users |-> [k \in {"B"} |-> [id |-> "B", name |-> "n2", vote |-> Null]]]}
VoteEvents == {<<"A", "5">>, <<"B", "8">>}
LeaveEvents == {"B"}

\* ------------------------------------------------------------------- state
VARIABLES
    currentPage, roomId, user, room, hubConnection, selectedVote, error,
    isVoting, isLoading, showVotesState,
    memoShow,       \* showVotesState as captured by the memoized setupSignalR
    joinLoading,    \* CreateJoinRoomPage's own loading flag
    jn,             \* handleJoinRoom suspended at an await
    lv,             \* handleLeaveRoom suspended at an await
    conns,          \* the HubConnection objects, by slot
    pending,        \* hub invocations awaiting their completion
    unhandledRejection  \* a promise returned by a click handler was rejected

appState == <<currentPage, roomId, user, room, hubConnection, selectedVote, error,
              isVoting, isLoading, showVotesState>>
vars == <<currentPage, roomId, user, room, hubConnection, selectedVote, error,
          isVoting, isLoading, showVotesState, memoShow, joinLoading, jn, lv,
          conns, pending, unhandledRejection>>

ConnIds == 1..MaxConns

IdleJoin == [pc |-> "idle", name |-> Null, capError |-> Null, capHub |-> NullConn,
             capShow |-> FALSE, capRoomId |-> Null, capUser |-> NullUser, rid |-> Null, usr |-> NullUser, conn |-> NullConn]
IdleLeave == [pc |-> "idle", hub |-> NullConn, roomId |-> Null, userId |-> Null]
ClosedConn == [state |-> "closed", handlers |-> {}, capShow |-> FALSE,
               capRoomId |-> Null, capUser |-> NullUser]

Init ==
    /\ currentPage = "createJoin"
    /\ roomId = Null
    /\ user = NullUser
    /\ room = NullRoom
    /\ hubConnection = NullConn
    /\ selectedVote = Null
    /\ error = Null
    /\ isVoting = TRUE
    /\ isLoading = FALSE
    /\ showVotesState = FALSE
    /\ memoShow = FALSE
    /\ joinLoading = FALSE
    /\ jn = IdleJoin
    /\ lv = IdleLeave
    /\ conns = [c \in ConnIds |-> ClosedConn]
    /\ pending = <<>>
    /\ unhandledRejection = FALSE


\* ------------------------------------------------------- render bookkeeping
\* useEffect cleanup: when hubConnection changes, the previous connection is
\* stopped; its onclose callback runs later
StopConn(cs, c) ==
    IF c \in ConnIds /\ cs[c].state \in {"starting", "connected", "reconnecting"}
    THEN [cs EXCEPT ![c].state = "stopping"]
    ELSE cs

EffectCleanup_Never(cs, oldHub, newHub) == cs

EffectCleanup(cs, oldHub, newHub) ==
    IF oldHub # NullConn /\ newHub # oldHub THEN StopConn(cs, oldHub) ELSE cs

\* setupSignalR and handleLeaveRoom are useCallback([hubConnection, roomId, user]):
\* they are re-created, capturing the render's showVotesState, only in a render
\* where one of the three changed
MemoDeps(h, r, u, show, old) ==
    IF <<h, r, u>> # <<hubConnection, roomId, user>> THEN show ELSE old

\* the render that follows a synchronous stretch; cs is the connection table the
\* stretch left
Rendered(cs) ==
    /\ memoShow' = MemoDeps(hubConnection', roomId', user', showVotesState', memoShow)
    /\ conns' = EffectCleanup(cs, hubConnection, hubConnection')

\* ---------------------------------------------------------- event reducers
MergeUsers_Replace(a, b) == b

MergeUsers(a, b) ==
    [k \in (DOMAIN a) \cup (DOMAIN b) |-> IF k \in DOMAIN b THEN b[k] ELSE a[k]]

UserJoinedReducer_PatchId(prev, updatedRoomData) ==
    IF prev = NullRoom THEN updatedRoomData
    ELSE [id |-> updatedRoomData.id,
          users |-> MergeUsers(prev.users, updatedRoomData.users)]

UserJoinedReducer(prev, updatedRoomData) ==
    IF prev = NullRoom THEN updatedRoomData
    ELSE [id |-> prev.id, users |-> MergeUsers(prev.users, updatedRoomData.users)]

UserLeftReducer_Keep(prev, userId) ==
    IF prev = NullRoom THEN NullRoom
    ELSE [prev EXCEPT !.users =
            [k \in DOMAIN prev.users |->
               IF k = userId THEN [prev.users[k] EXCEPT !.vote = Null]
               ELSE prev.users[k]]]

UserLeftReducer(prev, userId) ==
    IF prev = NullRoom THEN NullRoom
    ELSE [prev EXCEPT !.users = [k \in (DOMAIN prev.users) \ {userId} |-> prev.users[k]]]

VoteReceivedReducer_Insert(prevRoom, userId, vote) ==
    IF prevRoom = NullRoom THEN NullRoom
    ELSE [prevRoom EXCEPT !.users =
            MergeUsers(prevRoom.users,
                       [k \in {userId} |->
                          IF userId \in DOMAIN prevRoom.users
                          THEN [prevRoom.users[userId] EXCEPT !.vote = vote]
                          ELSE [id |-> userId, name |-> Null, vote |-> vote]])]

VoteReceivedReducer_Flip(prevRoom, userId, vote) ==
    IF prevRoom = NullRoom THEN NullRoom
    ELSE IF userId \in DOMAIN prevRoom.users
         THEN [prevRoom EXCEPT !.users[userId].vote =
                 IF prevRoom.users[userId].vote = vote THEN Null ELSE vote]
         ELSE prevRoom

VoteReceivedReducer(prevRoom, userId, vote) ==
    IF prevRoom = NullRoom THEN NullRoom
    ELSE IF userId \in DOMAIN prevRoom.users
         THEN [prevRoom EXCEPT !.users[userId].vote = vote]
         ELSE prevRoom

AllVotesClearedReducer_VotersOnly(prevRoom) ==
    IF prevRoom = NullRoom THEN NullRoom
    ELSE [prevRoom EXCEPT !.users =
            [k \in {j \in DOMAIN prevRoom.users : prevRoom.users[j].vote # Null} |->
               [prevRoom.users[k] EXCEPT !.vote = Null]]]

AllVotesClearedReducer(prevRoom) ==
    IF prevRoom = NullRoom THEN NullRoom
    ELSE [prevRoom EXCEPT !.users =
            [k \in DOMAIN prevRoom.users |-> [prevRoom.users[k] EXCEPT !.vote = Null]]]

\* what the VotesRevealed handler passes to setShowVotesState: the negation of
\* the showVotesState its closure captured
RevealedShow(capShow, current) == ~capShow

\* ------------------------------------------------- transport event handlers
\* the hub's events for which setupSignalR registers a handler (connection.on)
EventNames == {"UserJoined", "UserLeft", "VoteReceived", "VotesRevealed",
               "AllVotesCleared"}

\* a connected connection delivers the hub's event to the handler registered for it
Delivers(c, event) == conns[c].state = "connected" /\ event \in conns[c].handlers

OnUserJoined(c, updatedRoomData) ==
    /\ Delivers(c, "UserJoined")
    /\ room' = UserJoinedReducer(room, updatedRoomData)
    /\ error' = Null
    /\ UNCHANGED <<currentPage, roomId, user, hubConnection, selectedVote, isVoting,
                   isLoading, showVotesState, joinLoading, jn, lv, pending>>
    /\ UNCHANGED unhandledRejection
    /\ Rendered(conns)

OnUserLeft(c, userId) ==
    /\ Delivers(c, "UserLeft")
    /\ room' = UserLeftReducer(room, userId)
    /\ UNCHANGED <<currentPage, roomId, user, hubConnection, selectedVote, error,
                   isVoting, isLoading, showVotesState, joinLoading, jn, lv, pending>>
    /\ UNCHANGED unhandledRejection
    /\ Rendered(conns)

OnVoteReceived(c, userId, vote) ==
    /\ Delivers(c, "VoteReceived")
    /\ room' = VoteReceivedReducer(room, userId, vote)
    /\ error' = Null
    /\ UNCHANGED <<currentPage, roomId, user, hubConnection, selectedVote, isVoting,
                   isLoading, showVotesState, joinLoading, jn, lv, pending>>
    /\ UNCHANGED unhandledRejection
    /\ Rendered(conns)

OnVotesRevealed(c) ==
    /\ Delivers(c, "VotesRevealed")
    /\ isVoting' = FALSE
    /\ showVotesState' = RevealedShow(conns[c].capShow, showVotesState)
    /\ error' = Null
    /\ UNCHANGED <<currentPage, roomId, user, room, hubConnection, selectedVote,
                   isLoading, joinLoading, jn, lv, pending>>
    /\ UNCHANGED unhandledRejection
    /\ Rendered(conns)

OnAllVotesCleared_KeepSelection(c) ==
    /\ Delivers(c, "AllVotesCleared")
    /\ room' = AllVotesClearedReducer(room)
    /\ isVoting' = TRUE
    /\ showVotesState' = FALSE
    /\ error' = Null
    /\ UNCHANGED <<currentPage, roomId, user, hubConnection, selectedVote, isLoading,
                   joinLoading, jn, lv, pending>>
    /\ UNCHANGED unhandledRejection
    /\ Rendered(conns)

OnAllVotesCleared(c) ==
    /\ Delivers(c, "AllVotesCleared")
    /\ room' = AllVotesClearedReducer(room)
    /\ selectedVote' = Null
    /\ isVoting' = TRUE
    /\ showVotesState' = FALSE
    /\ error' = Null
    /\ UNCHANGED <<currentPage, roomId, user, hubConnection, isLoading, joinLoading,
                   jn, lv, pending>>
    /\ UNCHANGED unhandledRejection
    /\ Rendered(conns)

\* ------------------------------------------------------------ handleLeaveRoom
\* the tail of handleLeaveRoom: every reset it makes, with hubConnection set to h
LeaveResets(h, cs) ==
    /\ hubConnection' = h
    /\ roomId' = Null
    /\ user' = NullUser
    /\ room' = NullRoom
    /\ selectedVote' = Null
    /\ error' = Null
    /\ isVoting' = TRUE
    /\ currentPage' = "createJoin"
    /\ isLoading' = FALSE
    /\ joinLoading' = IF currentPage = "planningPoker" THEN FALSE ELSE joinLoading
    /\ UNCHANGED showVotesState
    /\ UNCHANGED unhandledRejection
    /\ Rendered(cs)

\* connection.stop() awaited to its end: the connection is closed and its
\* onclose callback has run
CloseConn(cs, c) ==
    IF c \in ConnIds THEN [cs EXCEPT ![c] = ClosedConn] ELSE cs

\* the Leave button (or "Return to Join Page"), with the closure of this render
LeaveClick ==
    /\ currentPage = "planningPoker"
    /\ lv.pc = "idle"
    /\ (room # NullRoom /\ user # NullUser) \/ ~isLoading
    /\ IF hubConnection = NullConn
       THEN /\ LeaveResets(NullConn, conns)
            /\ UNCHANGED <<jn, lv, pending>>
       ELSE IF roomId # Null /\ user # NullUser
       THEN /\ isLoading' = TRUE
            /\ lv' = [pc |-> "invoke", hub |-> hubConnection, roomId |-> roomId,
                      userId |-> user.id]
            /\ UNCHANGED <<currentPage, roomId, user, room, hubConnection, selectedVote,
                           error, isVoting, showVotesState, joinLoading, jn, pending>>
            /\ UNCHANGED unhandledRejection
            /\ Rendered(conns)
       ELSE /\ LeaveResets(NullConn, CloseConn(conns, hubConnection))
            /\ UNCHANGED <<jn, lv, pending>>

\* the LeaveRoom invocation completes: on success the connection is stopped, on
\* failure the catch skips the stop; either way the resets follow
LeaveInvokeDone(ok) ==
    /\ lv.pc = "invoke"
    /\ ok => conns[lv.hub].state = "connected"
    /\ LeaveResets(NullConn, IF ok THEN CloseConn(conns, lv.hub) ELSE conns)
    /\ lv' = IdleLeave
    /\ UNCHANGED <<jn, pending>>

\* ----------------------------------------------------- connection lifecycle
OnClose_TearsDown(c) ==
    /\ conns[c].state \in {"stopping", "reconnecting"}
    /\ error' = ErrConnLost
    /\ hubConnection' = NullConn
    /\ room' = NullRoom
    /\ selectedVote' = Null
    /\ UNCHANGED <<currentPage, roomId, user, isVoting, isLoading,
                   showVotesState, joinLoading, jn, lv, pending>>
    /\ UNCHANGED unhandledRejection
    /\ Rendered(CloseConn(conns, c))

OnClose(c) ==
    /\ conns[c].state \in {"stopping", "reconnecting"}
    /\ error' = ErrConnLost
    /\ hubConnection' = NullConn
    /\ UNCHANGED <<currentPage, roomId, user, room, selectedVote, isVoting, isLoading,
                   showVotesState, joinLoading, jn, lv, pending>>
    /\ UNCHANGED unhandledRejection
    /\ Rendered(CloseConn(conns, c))

OnReconnecting(c) ==
    /\ conns[c].state = "connected"
    /\ error' = ErrConnLost
    /\ UNCHANGED <<currentPage, roomId, user, room, hubConnection, selectedVote,
                   isVoting, isLoading, showVotesState, joinLoading, jn, lv, pending>>
    /\ UNCHANGED unhandledRejection
    /\ Rendered([conns EXCEPT ![c].state = "reconnecting"])

\* an awaited hubConnection.invoke(op, ...) on connection c
Invocation(op, c, rid, uid, vote) ==
    [op |-> op, conn |-> c, roomId |-> rid, userId |-> uid, vote |-> vote]

\* what onreconnected does once the connection is back, given the roomId and user
\* its closure captured when the connection was built: re-invoke JoinRoom with
\* them, or, when either is missing, leave
RejoinsOnReconnect(capRoomId, capUser) == capRoomId # Null /\ capUser # NullUser

\* onreconnected.  The handleLeaveRoom it calls is the closure's too: that one
\* captured a null hubConnection (setupSignalR returns early otherwise), so it
\* stops nothing and only resets
OnReconnected(c) ==
    /\ conns[c].state = "reconnecting"
    /\ LET cs == [conns EXCEPT ![c].state = "connected"] IN
       IF RejoinsOnReconnect(conns[c].capRoomId, conns[c].capUser)
       THEN /\ error' = Null
            /\ hubConnection' = c
            /\ pending' = Append(pending, Invocation("JoinRoom", c, conns[c].capRoomId,
                                                     conns[c].capUser.id, Null))
            /\ UNCHANGED <<currentPage, roomId, user, room, selectedVote, isVoting,
                           isLoading, showVotesState, joinLoading>>
            /\ UNCHANGED unhandledRejection
            /\ Rendered(cs)
       ELSE /\ LeaveResets(c, cs)
            /\ UNCHANGED pending
    /\ UNCHANGED <<jn, lv>>

\* ------------------------------------------------------------- handleJoinRoom
\* A closed HubConnection that nothing refers to any more is garbage: its slot
\* holds the next connection that is built
Referenced(c) ==
    \/ hubConnection = c
    \/ jn.conn = c
    \/ jn.capHub = c
    \/ lv.hub = c
    \/ \E i \in 1..Len(pending) : pending[i].conn = c

FreeSlots == {c \in ConnIds : conns[c].state = "closed" /\ ~Referenced(c)}

NewConn == CHOOSE c \in FreeSlots : \A d \in FreeSlots : c <= d

\* the Enter Room button of CreateJoinRoomPage (disabled while its loading flag is
\* set); handleJoinRoom runs to its first await with the closure of this render
JoinClick(newUserName) ==
    /\ currentPage = "createJoin"
    /\ ~joinLoading
    /\ jn.pc = "idle"
    /\ hubConnection # NullConn \/ FreeSlots # {}
    /\ joinLoading' = TRUE
    /\ isLoading' = TRUE
    /\ error' = Null
    /\ jn' = [pc |-> "createRoom", name |-> newUserName, capError |-> error,
              capHub |-> hubConnection, capShow |-> memoShow,
              capRoomId |-> roomId, capUser |-> user, rid |-> Null,
              usr |-> NullUser, conn |-> NullConn]
    /\ UNCHANGED <<currentPage, roomId, user, room, hubConnection, selectedVote,
                   isVoting, showVotesState, lv, pending>>
    /\ UNCHANGED unhandledRejection
    /\ Rendered(conns)

\* the catch and finally blocks of handleJoinRoom; h is hubConnection as the
\* code before the catch left it, cs the connection table
JoinCatch(h, cs) ==
    /\ error' = IF jn.capError # Null THEN jn.capError ELSE ErrMessage
    /\ roomId' = Null
    /\ user' = NullUser
    /\ room' = NullRoom
    /\ hubConnection' = IF jn.capHub # NullConn THEN NullConn ELSE h
    /\ isLoading' = FALSE
    /\ jn' = IdleJoin
    /\ UNCHANGED <<currentPage, selectedVote, isVoting, showVotesState, joinLoading,
                   lv, pending>>
    /\ UNCHANGED unhandledRejection
    /\ Rendered(IF jn.capHub # NullConn THEN StopConn(cs, jn.capHub) ELSE cs)

CreateRoomDone(ok, confirmedRoomId) ==
    /\ jn.pc = "createRoom"
    /\ IF ok
       THEN /\ roomId' = confirmedRoomId
            /\ jn' = [jn EXCEPT !.pc = "addUser", !.rid = confirmedRoomId]
            /\ UNCHANGED <<currentPage, user, room, hubConnection, selectedVote, error,
                           isVoting, isLoading, showVotesState, joinLoading, lv, pending>>
            /\ UNCHANGED unhandledRejection
            /\ Rendered(conns)
       ELSE JoinCatch(hubConnection, conns)

AddUserDone(ok, newUserId) ==
    /\ jn.pc = "addUser"
    /\ IF ok
       THEN LET newUser == [id |-> newUserId, name |-> jn.name, vote |-> Null] IN
            /\ user' = newUser
            /\ jn' = [jn EXCEPT !.pc = "fetch", !.usr = newUser]
            /\ UNCHANGED <<currentPage, roomId, room, hubConnection, selectedVote, error,
                           isVoting, isLoading, showVotesState, joinLoading, lv, pending>>
            /\ UNCHANGED unhandledRejection
            /\ Rendered(conns)
       ELSE JoinCatch(hubConnection, conns)

SeedRoom_KeyByName(confirmedRoomId, fetchedUsers, newUser) ==
    [id |-> confirmedRoomId,
     users |-> MergeUsers(fetchedUsers, [k \in {newUser.name} |-> newUser])]

\* fetchedRoom.users[newUser.id] = newUser
SeedRoom(confirmedRoomId, fetchedUsers, newUser) ==
    [id |-> confirmedRoomId,
     users |-> MergeUsers(fetchedUsers, [k \in {newUser.id} |-> newUser])]

BuildConnection_NoHandlers(capShow, capRoomId, capUser) ==
    [state |-> "starting", handlers |-> {}, capShow |-> capShow,
     capRoomId |-> capRoomId, capUser |-> capUser]

\* the connection setupSignalR builds, its five event handlers registered before
\* connection.start() is called: the handlers close over the showVotesState,
\* roomId and user of the render in which handleJoinRoom was called
BuildConnection(capShow, capRoomId, capUser) ==
    [state |-> "starting", handlers |-> EventNames, capShow |-> capShow,
     capRoomId |-> capRoomId, capUser |-> capUser]

\* fetchRoomData returns; setRoom; setupSignalR runs to connection.start(), or
\* returns at once when its closure holds a connection
FetchDone(ok, fetchedUsers) ==
    /\ jn.pc = "fetch"
    /\ IF ~ok THEN JoinCatch(hubConnection, conns)
       ELSE /\ room' = SeedRoom(jn.rid, fetchedUsers, jn.usr)
            /\ IF jn.capHub # NullConn
               THEN /\ currentPage' = "planningPoker"
                    /\ isLoading' = FALSE
                    /\ joinLoading' = FALSE
                    /\ jn' = IdleJoin
                    /\ UNCHANGED <<roomId, user, hubConnection, selectedVote, error,
                                   isVoting, showVotesState, lv, pending>>
                    /\ UNCHANGED unhandledRejection
                    /\ Rendered(conns)
               ELSE /\ jn' = [jn EXCEPT !.pc = "start", !.conn = NewConn]
                    /\ UNCHANGED <<currentPage, roomId, user, hubConnection, selectedVote,
                                   error, isVoting, isLoading, showVotesState,
                                   joinLoading, lv, pending>>
                    /\ UNCHANGED unhandledRejection
                    /\ Rendered([conns EXCEPT ![NewConn] =
                                   BuildConnection(jn.capShow, jn.capRoomId, jn.capUser)])

\* connection.start() returns; on success setHubConnection and invoke JoinRoom
StartDone(ok) ==
    /\ jn.pc = "start"
    /\ ok => conns[jn.conn].state = "starting"
    /\ IF ok
       THEN /\ hubConnection' = jn.conn
            /\ jn' = [jn EXCEPT !.pc = "invokeJoin"]
            /\ UNCHANGED <<currentPage, roomId, user, room, selectedVote, error,
                           isVoting, isLoading, showVotesState, joinLoading, lv, pending>>
            /\ UNCHANGED unhandledRejection
            /\ Rendered([conns EXCEPT ![jn.conn].state = "connected"])
       ELSE JoinCatch(NullConn, CloseConn(conns, jn.conn))

\* the JoinRoom invocation completes
InvokeJoinDone(ok) ==
    /\ jn.pc = "invokeJoin"
    /\ ok => conns[jn.conn].state = "connected"
    /\ IF ok
       THEN /\ currentPage' = "planningPoker"
            /\ isLoading' = FALSE
            /\ joinLoading' = FALSE
            /\ jn' = IdleJoin
            /\ UNCHANGED <<roomId, user, room, hubConnection, selectedVote, error,
                           isVoting, showVotesState, lv, pending>>
            /\ UNCHANGED unhandledRejection
            /\ Rendered(conns)
       ELSE JoinCatch(NullConn, StopConn(conns, jn.conn))

\* ------------------------------------------------- vote, clear and reveal
\* PlanningPokerPage is rendered (its buttons exist) on the planningPoker page
\* once room and user are set
PokerPageShown == currentPage = "planningPoker" /\ room # NullRoom /\ user # NullUser

SomeVote == \E k \in DOMAIN room.users : room.users[k].vote # Null

CanSendVote_IgnoresIsVoting == roomId # Null /\ user # NullUser /\ hubConnection # NullConn

\* the guard of handleVote
CanSendVote == roomId # Null /\ user # NullUser /\ hubConnection # NullConn /\ isVoting

HandleVote(vote) ==
    /\ PokerPageShown
    /\ IF ~CanSendVote
       THEN UNCHANGED vars
       ELSE /\ Len(pending) < MaxPending
            /\ selectedVote' = vote
            /\ pending' = Append(pending,
                                 Invocation("SendVote", hubConnection, roomId, user.id, vote))
            /\ UNCHANGED <<currentPage, roomId, user, room, hubConnection, error,
                           isVoting, isLoading, showVotesState, joinLoading, jn, lv>>
            /\ UNCHANGED unhandledRejection
            /\ Rendered(conns)

Remove(seq, i) == [j \in 1..(Len(seq) - 1) |-> IF j < i THEN seq[j] ELSE seq[j + 1]]

\* selectedVote after the catch of handleVote
VoteRollback(current, sent) == Null

\* the i-th invocation in flight completes and the code after its await runs:
\* the rest of handleVote, or the rest of onreconnected
InvokeDone(i, ok) ==
    /\ i \in 1..Len(pending)
    /\ ok => conns[pending[i].conn].state = "connected"
    /\ pending' = Remove(pending, i)
    /\ IF ok
       THEN /\ UNCHANGED <<currentPage, roomId, user, room, hubConnection, selectedVote,
                           error, isVoting, isLoading, showVotesState, joinLoading>>
            /\ UNCHANGED unhandledRejection
            /\ Rendered(conns)
       ELSE IF pending[i].op = "SendVote"
       THEN /\ error' = ErrMessage
            /\ selectedVote' = VoteRollback(selectedVote, pending[i].vote)
            /\ UNCHANGED <<currentPage, roomId, user, room, hubConnection, isVoting,
                           isLoading, showVotesState, joinLoading>>
            /\ UNCHANGED unhandledRejection
            /\ Rendered(conns)
       ELSE LeaveResets(hubConnection, conns)
    /\ UNCHANGED <<jn, lv>>

\* can an invocation on connection c succeed
Connected(c) == c \in ConnIds /\ conns[c].state = "connected"

HandleClearVotes_Optimistic(ok) ==
    /\ PokerPageShown
    /\ SomeVote
    /\ IF roomId = Null \/ hubConnection = NullConn
       THEN UNCHANGED vars
       ELSE /\ ok => Connected(hubConnection)
            /\ error' = IF ok THEN error ELSE ErrMessage
            /\ room' = AllVotesClearedReducer(room)
            /\ selectedVote' = Null
            /\ isVoting' = TRUE
            /\ showVotesState' = FALSE
            /\ UNCHANGED <<currentPage, roomId, user, hubConnection, isLoading,
                           joinLoading, jn, lv, pending>>
            /\ UNCHANGED unhandledRejection
            /\ Rendered(conns)

\* handleClearVotes with the outcome of its invocation; the continuation only
\* sets error, so the invocation and its completion are one step.  The Clear
\* button is disabled while no participant has a vote
HandleClearVotes(ok) ==
    /\ PokerPageShown
    /\ SomeVote
    /\ IF roomId = Null \/ hubConnection = NullConn
       THEN UNCHANGED vars
       ELSE /\ ok => Connected(hubConnection)
            /\ error' = IF ok THEN error ELSE ErrMessage
            /\ UNCHANGED <<currentPage, roomId, user, room, hubConnection, selectedVote,
                           isVoting, isLoading, showVotesState, joinLoading, jn, lv,
                           pending>>
            /\ UNCHANGED unhandledRejection
            /\ Rendered(conns)

\* handleRevealVotes with the outcome of its invocation: it has no catch, so a
\* failed invocation rejects the promise the click handler returned, and nothing
\* follows the await but a log line.  The Reveal button is disabled while
\* no participant has a vote
HandleRevealVotes(ok) ==
    /\ PokerPageShown
    /\ SomeVote
    /\ IF hubConnection = NullConn
       THEN UNCHANGED vars
       ELSE /\ ok => Connected(hubConnection)
            /\ unhandledRejection' = (unhandledRejection \/ ~ok)
            /\ UNCHANGED <<currentPage, roomId, user, room, hubConnection, selectedVote,
                           error, isVoting, isLoading, showVotesState, memoShow,
                           joinLoading, jn, lv, conns, pending>>

\* the Dismiss button of the error banner
DismissError ==
    /\ error # Null
    /\ error' = Null
    /\ UNCHANGED <<currentPage, roomId, user, room, hubConnection, selectedVote,
                   isVoting, isLoading, showVotesState, joinLoading, jn, lv, pending>>
    /\ UNCHANGED unhandledRejection
    /\ Rendered(conns)

\* ------------------------------------------------------------ specification
Next ==
    \/ \E n \in JoinNames : JoinClick(n)
    \/ \E ok \in BOOLEAN, r \in JoinRoomIds : CreateRoomDone(ok, r)
    \/ \E ok \in BOOLEAN, u \in SelfIds : AddUserDone(ok, u)
    \/ \E ok \in BOOLEAN, m \in FetchedMaps : FetchDone(ok, m)
    \/ \E ok \in BOOLEAN : StartDone(ok)
    \/ \E ok \in BOOLEAN : InvokeJoinDone(ok)
    \/ \E c \in ConnIds : OnVotesRevealed(c)
    \/ \E c \in ConnIds : OnAllVotesCleared(c)
    \/ \E c \in ConnIds, upd \in JoinPatches : OnUserJoined(c, upd)
    \/ \E c \in ConnIds, u \in LeaveEvents : OnUserLeft(c, u)
    \/ \E c \in ConnIds, e \in VoteEvents : OnVoteReceived(c, e[1], e[2])
    \/ \E c \in ConnIds : OnClose(c)
    \/ \E c \in ConnIds : OnReconnecting(c)
    \/ \E c \in ConnIds : OnReconnected(c)
    \/ \E v \in ClickVotes : HandleVote(v)
    \/ \E i \in 1..MaxPending, ok \in BOOLEAN : InvokeDone(i, ok)
    \/ \E ok \in BOOLEAN : HandleClearVotes(ok)
    \/ \E ok \in BOOLEAN : HandleRevealVotes(ok)
    \/ LeaveClick
    \/ \E ok \in BOOLEAN : LeaveInvokeDone(ok)
    \/ DismissError

Spec == Init /\ [][Next]_vars

\* One session, joined without a failure, receiving every event the value domains
\* allow: the specification under which the event reducers are checked
ReplicaNext ==
    \/ \E n \in Names : JoinClick(n)
    \/ \E r \in RoomIds : CreateRoomDone(TRUE, r)
    \/ \E u \in UserIds : AddUserDone(TRUE, u)
    \/ \E m \in UserMaps : FetchDone(TRUE, m)
    \/ StartDone(TRUE)
    \/ InvokeJoinDone(TRUE)
    \/ \E c \in ConnIds, upd \in Room : OnUserJoined(c, upd)
    \/ \E c \in ConnIds, u \in UserIds : OnUserLeft(c, u)
    \/ \E c \in ConnIds, u \in UserIds, v \in Votes : OnVoteReceived(c, u, v)
    \/ \E c \in ConnIds : OnVotesRevealed(c)
    \/ \E c \in ConnIds : OnAllVotesCleared(c)

ReplicaSpec == Init /\ [][ReplicaNext]_vars

\* One session, joined without a failure, in which the participant votes with every
\* card value while earlier votes are in flight, each invocation succeeding or
\* failing, and the round is revealed and cleared
VoteNext ==
    \/ \E n \in JoinNames : JoinClick(n)
    \/ \E r \in JoinRoomIds : CreateRoomDone(TRUE, r)
    \/ \E u \in SelfIds : AddUserDone(TRUE, u)
    \/ \E m \in FetchedMaps : FetchDone(TRUE, m)
    \/ StartDone(TRUE)
    \/ InvokeJoinDone(TRUE)
    \/ \E v \in Votes : HandleVote(v)
    \/ \E i \in 1..MaxPending, ok \in BOOLEAN : InvokeDone(i, ok)
    \/ \E c \in ConnIds, v \in Votes : OnVoteReceived(c, "A", v)
    \/ \E c \in ConnIds : OnVotesRevealed(c)
    \/ \E c \in ConnIds : OnAllVotesCleared(c)
    \/ DismissError

VoteSpec == Init /\ [][VoteNext]_vars

\* ------------------------------------------------------------------ claims
\* connection c carries a joined session
Joined(c) ==
    /\ currentPage = "planningPoker"
    /\ hubConnection = c
    /\ conns[c].state = "connected"
    /\ roomId # Null
    /\ user # NullUser
    /\ room # NullRoom

\* C1: in a joined session every VotesRevealed event flips the visibility: hidden
\* votes become shown and shown votes become hidden (so after n events since the
\* last AllVotesCleared the votes are shown iff n is odd).
C1_ToggleLaw ==
    [][\A c \in ConnIds :
          (Joined(c) /\ OnVotesRevealed(c)) => (showVotesState' = ~showVotesState)]_vars

\* C2: on the planningPoker page, from room entry on and in every later session,
\* canVote (isVoting) is true iff the votes are hidden (Collecting).
C2_CanVoteIffCollecting ==
    PokerPageShown => (isVoting <=> ~showVotesState)

\* C3: when the transport reports 'reconnected' for a joined session, JoinRoom is
\* invoked on that connection with the session's room id and participant, and the
\* session stays joined with roomId and user unchanged.
C3_ReconnectRejoins ==
    [][\A c \in ConnIds :
          (currentPage = "planningPoker" /\ hubConnection = c /\ roomId # Null
             /\ user # NullUser /\ OnReconnected(c))
          => /\ \E i \in 1..Len(pending') :
                   pending'[i] = Invocation("JoinRoom", c, roomId, user.id, Null)
             /\ roomId' = roomId
             /\ user' = user
             /\ currentPage' = "planningPoker"]_vars

\* a step in which handleLeaveRoom, called from the page, runs to its end
LeaveCompletes ==
    \/ LeaveClick /\ lv'.pc = "idle"
    \/ \E ok \in BOOLEAN : LeaveInvokeDone(ok)

\* C4: when handleLeaveRoom completes, roomId, user, room, hubConnection and
\* selectedVote are null, isVoting is true and showVotesState is false.
C4_LeaveResetsAll ==
    [][LeaveCompletes =>
          /\ roomId' = Null
          /\ user' = NullUser
          /\ room' = NullRoom
          /\ hubConnection' = NullConn
          /\ selectedVote' = Null
          /\ isVoting'
          /\ ~showVotesState']_vars

\* no session: the state a teardown leaves, with no join or leave under way
TornDown ==
    /\ currentPage = "createJoin"
    /\ roomId = Null
    /\ user = NullUser
    /\ room = NullRoom
    /\ jn.pc = "idle"
    /\ lv.pc = "idle"

\* connection c delivers one of the five remote events
EventStep(c) ==
    \/ \E upd \in Room : OnUserJoined(c, upd)
    \/ \E u \in UserIds : OnUserLeft(c, u)
    \/ \E u \in UserIds, v \in Votes : OnVoteReceived(c, u, v)
    \/ OnVotesRevealed(c)
    \/ OnAllVotesCleared(c)

\* C5: an event delivered after the session was torn down is dropped: room stays
\* null, and isVoting, showVotesState and selectedVote keep their values.
C5_StaleEventsDropped ==
    [][\A c \in ConnIds :
          (TornDown /\ EventStep(c))
          => /\ room' = NullRoom
             /\ UNCHANGED <<isVoting, showVotesState, selectedVote>>]_vars

\* C6: once the replica is populated, no step of the session changes room.id,
\* whatever room id an event's payload carries.
C6_RoomIdStable ==
    [][room # NullRoom => (room' # NullRoom /\ room'.id = room.id)]_vars

\* a populated replica receives a join patch that carries another room's id and
\* adds a participant
C6_Witness ==
    /\ room # NullRoom
    /\ \E c \in ConnIds, upd \in Room :
          /\ upd.id # room.id
          /\ ENABLED (OnUserJoined(c, upd) /\ room' # room)

\* C7: a UserJoined patch is merged: a participant the patch does not mention stays
\* in the replica with its record unchanged, and every participant of the patch is
\* in the replica afterwards.
C7_JoinMerges ==
    [][\A c \in ConnIds, upd \in Room :
          OnUserJoined(c, upd)
          => /\ \A k \in (DOMAIN room.users) \ (DOMAIN upd.users) :
                   k \in DOMAIN room'.users /\ room'.users[k] = room.users[k]
             /\ \A k \in DOMAIN upd.users : k \in DOMAIN room'.users]_vars

\* a replica holding a participant with a vote receives a patch that names only
\* another participant, not yet in the replica
C7_Witness ==
    \E c \in ConnIds, upd \in Room, k \in DOMAIN room.users :
       /\ room.users[k].vote # Null
       /\ DOMAIN upd.users # {}
       /\ (DOMAIN upd.users) \cap (DOMAIN room.users) = {}
       /\ ENABLED (OnUserJoined(c, upd) /\ room' # room)

\* C8: on a populated replica a UserJoined event adds exactly the ids its patch
\* names and a UserLeft event removes exactly its id, present or not; so after any
\* sequence of the two the key set is the initial ids plus every id named in a
\* patch, minus every id whose last occurrence is a UserLeft.
C8_KeySet ==
    [][\A c \in ConnIds :
          /\ \A upd \in Room :
                (room # NullRoom /\ OnUserJoined(c, upd))
                => DOMAIN room'.users = (DOMAIN room.users) \cup (DOMAIN upd.users)
          /\ \A u \in UserIds :
                (room # NullRoom /\ OnUserLeft(c, u))
                => DOMAIN room'.users = (DOMAIN room.users) \ {u}]_vars

\* a replica from which the local participant was removed by a UserLeft while
\* another participant is present, with a UserLeft of a present id to come
C8_Witness ==
    /\ room # NullRoom
    /\ user.id \notin DOMAIN room.users
    /\ \E c \in ConnIds, u \in DOMAIN room.users :
          ENABLED (OnUserLeft(c, u) /\ room' # room)

\* C9: a VoteReceived for an id that is no key of room.users leaves the replica as
\* it was; for a known id it changes that participant's vote and nothing else.
C9_VoteFrame ==
    [][\A c \in ConnIds, u \in UserIds, v \in Votes :
          OnVoteReceived(c, u, v)
          => IF u \in DOMAIN room.users
             THEN room' = [room EXCEPT !.users[u].vote = v]
             ELSE room' = room]_vars

\* a populated replica that does not know some id, and holds a participant whose
\* vote a VoteReceived is about to change
C9_Witness ==
    /\ room # NullRoom
    /\ (DOMAIN room.users) # UserIds
    /\ \E c \in ConnIds, u \in UserIds, v \in Votes :
          ENABLED (OnVoteReceived(c, u, v) /\ room' # room)

\* C10: AllVotesCleared sets every participant's vote to null and changes nothing
\* else: the same ids, each with its id and name.
C10_ClearAll ==
    [][\A c \in ConnIds :
          OnAllVotesCleared(c)
          => /\ room'.id = room.id
             /\ DOMAIN room'.users = DOMAIN room.users
             /\ \A k \in DOMAIN room.users :
                   room'.users[k] = [room.users[k] EXCEPT !.vote = Null]]_vars

\* a replica in which one participant has voted and another has not, about to be
\* cleared
C10_Witness ==
    /\ \E k \in DOMAIN room.users : room.users[k].vote # Null
    /\ \E k \in DOMAIN room.users : room.users[k].vote = Null
    /\ \E c \in ConnIds : ENABLED (OnAllVotesCleared(c) /\ room' # room)

\* C11: an AllVotesCleared event, whatever the visibility state it arrives in,
\* leaves the votes hidden, voting allowed and no local selection.
C11_ClearResetsRound ==
    [][\A c \in ConnIds :
          OnAllVotesCleared(c)
          => /\ showVotesState' = FALSE
             /\ isVoting' = TRUE
             /\ selectedVote' = Null]_vars

\* votes are shown, voting is closed and the participant holds a selection when an
\* AllVotesCleared event is about to be delivered
C11_Witness ==
    /\ showVotesState
    /\ ~isVoting
    /\ selectedVote # Null
    /\ \E c \in ConnIds : Joined(c) /\ ENABLED OnAllVotesCleared(c)

\* C12: each replica handler is idempotent on its payload: after an event has been
\* applied, applying the same event again yields the same replica.
C12_DuplicateTolerance ==
    [][\A c \in ConnIds :
          /\ \A upd \in Room :
                OnUserJoined(c, upd) => UserJoinedReducer(room', upd) = room'
          /\ \A u \in UserIds :
                OnUserLeft(c, u) => UserLeftReducer(room', u) = room'
          /\ \A u \in UserIds, v \in Votes :
                OnVoteReceived(c, u, v) => VoteReceivedReducer(room', u, v) = room'
          /\ OnAllVotesCleared(c) => AllVotesClearedReducer(room') = room']_vars

\* a replica that the same VoteReceived, the same UserJoined, the same UserLeft
\* and an AllVotesCleared would each change when delivered
C12_Witness ==
    /\ room # NullRoom
    /\ \E c \in ConnIds :
          /\ \E u \in UserIds, v \in Votes :
                ENABLED (OnVoteReceived(c, u, v) /\ room' # room)
          /\ \E upd \in Room : ENABLED (OnUserJoined(c, upd) /\ room' # room)
          /\ \E u \in UserIds : ENABLED (OnUserLeft(c, u) /\ room' # room)
          /\ ENABLED (OnAllVotesCleared(c) /\ room' # room)

\* C13: a vote action taken while isVoting is false, or while roomId, user or
\* hubConnection is null, invokes nothing and leaves selectedVote as it was; so no
\* SendVote is invoked while the votes are revealed and not yet cleared.
C13_VoteGuard ==
    [][\A v \in Votes :
          ((~isVoting \/ roomId = Null \/ user = NullUser \/ hubConnection = NullConn)
             /\ HandleVote(v))
          => UNCHANGED <<selectedVote, pending>>]_vars

\* a joined session whose votes were revealed, the connection live and an earlier
\* vote selected: a card clicked now reaches handleVote with isVoting false
C13_Witness ==
    /\ PokerPageShown
    /\ ~isVoting
    /\ showVotesState
    /\ selectedVote # Null
    /\ roomId # Null
    /\ Connected(hubConnection)
    /\ Len(pending) < MaxPending
    /\ \E v \in Votes : ENABLED HandleVote(v)

\* C14: a SendVote invocation that fails rolls back only the selection its own vote
\* action made: a selection made by a later vote action is kept; a failed vote
\* that is the only one in flight and still the selection sets selectedVote to
\* null; either way an error is set and the session stays joined.
C14_RollbackOwnVote ==
    [][\A i \in 1..MaxPending :
          (i <= Len(pending) /\ pending[i].op = "SendVote" /\ InvokeDone(i, FALSE))
          => /\ selectedVote # pending[i].vote => selectedVote' = selectedVote
             /\ (Len(pending) = 1 /\ selectedVote = pending[i].vote)
                   => selectedVote' = Null
             /\ error' # Null
             /\ UNCHANGED <<currentPage, roomId, user, room, hubConnection>>]_vars

C16_LeaveBestEffort ==
    [][LeaveInvokeDone(FALSE)
          => /\ conns'[lv.hub].state \in {"stopping", "closed"}
             /\ roomId' = Null
             /\ user' = NullUser
             /\ room' = NullRoom
             /\ selectedVote' = Null
             /\ currentPage' = "createJoin"]_vars

\* handleLeaveRoom is suspended at its LeaveRoom invocation on a connection that
\* is still connected, with a vote selected
C16_Witness ==
    /\ lv.pc = "invoke"
    /\ hubConnection = lv.hub
    /\ Connected(lv.hub)
    /\ selectedVote # Null
    /\ ENABLED LeaveInvokeDone(FALSE)

\* C17: when a transport reconnect ends the session (the JoinRoom re-invocation
\* failed, or onreconnected gave up re-joining), the session ends as after an
\* explicit leave: the connection is closed, hubConnection, roomId, user, room and
\* selectedVote are null and the visibility state is initial.
C17_ReconnectFailureTearsDown ==
    [][\A c \in ConnIds :
          (\/ currentPage = "planningPoker" /\ OnReconnected(c)
                /\ currentPage' = "createJoin"
           \/ \E i \in 1..MaxPending :
                 /\ i <= Len(pending)
                 /\ pending[i].op = "JoinRoom"
                 /\ pending[i].conn = c
                 /\ InvokeDone(i, FALSE))
          => /\ conns'[c].state \in {"stopping", "closed"}
             /\ hubConnection' = NullConn
             /\ roomId' = Null
             /\ user' = NullUser
             /\ room' = NullRoom
             /\ selectedVote' = Null
             /\ isVoting'
             /\ ~showVotesState']_vars

\* C18: an onclose or onreconnecting notification sets the connectivity warning
\* and leaves roomId, user, room, selectedVote, isVoting, showVotesState and
\* currentPage unchanged.
C18_ConnectivityWarningOnly ==
    [][\A c \in ConnIds :
          (OnClose(c) \/ OnReconnecting(c))
          => /\ error' = ErrConnLost
             /\ UNCHANGED <<roomId, user, room, selectedVote, isVoting, showVotesState,
                            currentPage>>]_vars

\* a joined session with a vote selected whose connection reported reconnecting
\* (the warning is shown, the session is intact) and is about to report closed
C18_Witness ==
    /\ PokerPageShown
    /\ roomId # Null
    /\ selectedVote # Null
    /\ error = ErrConnLost
    /\ hubConnection # NullConn
    /\ hubConnection \in ConnIds
    /\ conns[hubConnection].state = "reconnecting"
    /\ ENABLED OnClose(hubConnection)

\* C19: when the invocation of SendVote, ClearAllVotes or RevealVotes fails, error
\* is non-null afterwards and roomId, user, room, hubConnection and currentPage
\* are unchanged.
C19_ActionFailureSurfaced ==
    [][(\/ \E i \in 1..MaxPending :
              i <= Len(pending) /\ pending[i].op = "SendVote" /\ InvokeDone(i, FALSE)
        \/ roomId # Null /\ hubConnection # NullConn /\ HandleClearVotes(FALSE)
        \/ hubConnection # NullConn /\ HandleRevealVotes(FALSE))
       => /\ error' # Null
          /\ UNCHANGED <<roomId, user, room, hubConnection, currentPage>>]_vars

\* C20: JoinRoom is invoked on a connection only after the five event handlers
\* were registered on it, and a connection that can deliver events has all five.
C20_HandlersBeforeJoin ==
    [][/\ StartDone(TRUE) => conns'[jn.conn].handlers = EventNames
       /\ \A c \in ConnIds :
             (\E i \in 1..Len(pending') :
                 pending'[i].op = "JoinRoom" /\ pending'[i].conn = c)
             => conns'[c].handlers = EventNames
       /\ \A c \in ConnIds :
             conns'[c].state = "connected" => conns'[c].handlers = EventNames]_vars

\* JoinRoom has been invoked on the new connection and is in flight, and the
\* connection can already deliver an event
C20_Witness ==
    /\ jn.pc = "invokeJoin"
    /\ Connected(jn.conn)
    /\ conns[jn.conn].handlers = EventNames
    /\ ENABLED OnVotesRevealed(jn.conn)

\* C21: a SendVote invocation that fails after its session was torn down is
\* ignored: error, selectedVote and the rest of the state keep their values.
C21_LateCompletionIgnored ==
    [][\A i \in 1..MaxPending :
          (TornDown /\ i <= Len(pending) /\ pending[i].op = "SendVote"
             /\ InvokeDone(i, FALSE))
          => UNCHANGED <<error, selectedVote, currentPage, roomId, user, room,
                         hubConnection, isVoting, showVotesState>>]_vars

C23_OneConnectionPerSession ==
    LET open == {c \in ConnIds :
                   conns[c].state \in {"starting", "connected", "reconnecting"}} IN
    /\ Cardinality(open) <= 1
    /\ TornDown => open = {}

\* C24: a handleJoinRoom that ends on the planningPoker page is one whose JoinRoom
\* invocation, made during this join on its connected connection, has completed.
C24_JoinInvokesJoinRoom ==
    [][(jn.pc # "idle" /\ jn'.pc = "idle" /\ currentPage' = "planningPoker")
       => (jn.pc = "invokeJoin" /\ Connected(jn.conn) /\ InvokeJoinDone(TRUE))]_vars

====
